---- MODULE Spec2Model ----
(***************************************************************************)
(* Model of src/src/average_key_brightnesses.rs: the KeyBrightnesses       *)
(* table (keys: String, brightnesses: Vec<u8>), its constructors new and   *)
(* default, the private helpers keys_average_brightnesses and              *)
(* average_brightness, and the accessors brightnesses, keys, as_tuple,     *)
(* as_hash_map and the derived clone.                                      *)
(*                                                                         *)
(* A string is a sequence of codepoints.  A GrayImage is a record          *)
(* [width, height, data] whose data is the row-major pixel buffer.  A      *)
(* panic ends the program: pc = "panicked" has no successor.               *)
(***************************************************************************)
EXTENDS Integers, Sequences, FiniteSets, TLC

VARIABLES
    pc,                 \* "idle" | "loop" (inside keys_average_brightnesses) | "panicked"
    call,               \* arguments of the constructor / helper call last entered
    idx,                \* position of the for loop over key_chunk_rows (1-based)
    key_brightnesess,   \* the local Vec<u8> of keys_average_brightnesses (line 43)
    image,              \* the GrayImage of the current loop iteration (line 46)
    draws,              \* draw_text_mut calls made by the constructor call last entered
    table,              \* the KeyBrightnesses value the caller holds, or NoTable
    ret,                \* [op, val]: the operation last called and the value it returned,
                        \* NoRet while a constructor runs
    err,                \* panic message, "" while none
    prev                \* [args, val] of an earlier completed call (determinism check)

vars == <<pc, call, idx, key_brightnesess, image, draws, table, ret, err, prev>>

----------------------------------------------------------------------------
(* Bounds of the model. *)

MaxKeys == 2        \* longest character set passed to new
MaxPixels == 3      \* largest canvas handed directly to average_brightness

SPACE == 32
Alphabet == {SPACE, 46, 65}                    \* ' ', '.', 'A'
Fonts == {"mono", "tall"}
Scales == {1, 2}
PixelValues == {0, 1, 127, 254, 255}

RECURSIVE SeqsUpTo(_, _)
SeqsUpTo(S, n) ==
    IF n = 0 THEN {<<>>}
    ELSE LET shorter == SeqsUpTo(S, n - 1)
         IN  shorter \cup {Append(q, x) : q \in {t \in shorter : Len(t) = n - 1}, x \in S}

KeySets == SeqsUpTo(Alphabet, MaxKeys)

----------------------------------------------------------------------------
(* Program constants. *)

\* the printable characters without the trailing blank
PRINTABLE_CHARACTERS_no_blank == [j \in 1..94 |-> 32 + j]

DEFAULT_PRINTABLE_CHARACTERS ==
    << 33, 34, 35, 36, 37, 38, 39, 40, 41, 42, 43, 44, 45, 46, 47, 48,
       49, 50, 51, 52, 53, 54, 55, 56, 57, 58, 59, 60, 61, 62, 63, 64,
       65, 66, 67, 68, 69, 70, 71, 72, 73, 74, 75, 76, 77, 78, 79, 80,
       81, 82, 83, 84, 85, 86, 87, 88, 89, 90, 91, 92, 93, 94, 95, 96,
       97, 98, 99, 100, 101, 102, 103, 104, 105, 106, 107, 108, 109, 110,
       111, 112, 113, 114, 115, 116, 117, 118, 119, 120, 121, 122, 123,
       124, 125, 126, 32 >>

DEFAULT_BRIGHTNESSES ==
    << 22, 25, 59, 55, 48, 65, 13, 27, 28, 41, 34, 8, 15, 5, 23, 64, 33, 50, 50, 53, 53, 53, 38, 61,
       55, 11, 13, 29, 33, 29, 34, 61, 53, 71, 46, 62, 56, 46, 57, 58, 48, 36, 60, 36, 75, 73, 56, 53,
       57, 64, 55, 38, 52, 48, 79, 54, 41, 51, 35, 23, 35, 32, 12, 10, 49, 56, 37, 56, 47, 43, 54, 52,
       39, 34, 53, 44, 61, 44, 43, 47, 48, 28, 42, 37, 42, 34, 52, 40, 38, 43, 32, 23, 32, 24, 0 >>

KEY_REPETITION == 3
KEY_WIDTH_MULTIPLIER == 2
CHUNK_WIDTH_KEY_AMOUNT == KEY_REPETITION * KEY_WIDTH_MULTIPLIER
KEY_COLOR == 255

SpacePanic == "Keys cannot contain spaces."
DivPanic == "attempt to divide by zero"
UnwrapPanic == "unwrap on Err: TryFromIntError"

NoTable == [keys |-> <<-1>>, brightnesses |-> <<>>]
NoCall == [fn |-> "none", keys |-> <<>>, font |-> "none", scale |-> 0]
NoRet == [op |-> "none", val |-> 0]
NoPrev == [args |-> NoCall, val |-> <<>>]

----------------------------------------------------------------------------
(* The font rasterizer (rusttype / imageproc), as the builder uses it.  A   *)
(* font gives each character a glyph: its advance, the offset (left, top)  *)
(* of its pixel bounding box and the coverage (0..255) of each pixel of    *)
(* the box; ink = <<>> is a glyph without outline (no bounding box).  A    *)
(* scale is an integer magnification.                                      *)

NoInk == [advance |-> 1, left |-> 0, top |-> 0, ink |-> <<>>]

Glyph(font, c) ==
    IF c = SPACE THEN NoInk
    ELSE IF font = "mono"
         THEN IF c = 65
              THEN [advance |-> 1, left |-> 0, top |-> 0, ink |-> << <<255>> >>]
              ELSE [advance |-> 1, left |-> 0, top |-> 1, ink |-> << <<65>> >>]
         ELSE IF c = 65
              THEN [advance |-> 2, left |-> 1, top |-> 0, ink |-> << <<128>> >>]
              ELSE NoInk

InkHeight(g) == Len(g.ink)
InkWidth(g) == IF g.ink = <<>> THEN 0 ELSE Len(g.ink[1])

ScaledGlyph(font, scale, c) ==
    LET g == Glyph(font, c)
    IN  [advance |-> g.advance * scale,
         left    |-> g.left * scale,
         top     |-> g.top * scale,
         ink     |-> [r \in 1..(InkHeight(g) * scale) |->
                        [x \in 1..(InkWidth(g) * scale) |->
                            g.ink[((r - 1) \div scale) + 1][((x - 1) \div scale) + 1]]]]

Max(a, b) == IF a >= b THEN a ELSE b

\* font.layout(text, scale, ..): the glyphs one after the other, each with
\* the corner (x, y) of its pixel bounding box; pen is where the next begins
RECURSIVE LayoutUpTo(_, _, _, _)
LayoutUpTo(font, scale, text, n) ==
    IF n = 0 THEN <<>>
    ELSE LET before == LayoutUpTo(font, scale, text, n - 1)
             start  == IF n = 1 THEN 0 ELSE before[n - 1].pen
             g      == ScaledGlyph(font, scale, text[n])
         IN  Append(before, [x |-> start + g.left, y |-> g.top, g |-> g,
                             pen |-> start + g.advance])

Layout(font, scale, text) == LayoutUpTo(font, scale, text, Len(text))

\* imageproc::drawing::text_size over the first n glyphs: the largest
\* bb.max.x and bb.max.y of the glyphs that have a pixel bounding box
RECURSIVE TextSizeUpTo(_, _)
TextSizeUpTo(lay, n) ==
    IF n = 0 THEN <<0, 0>>
    ELSE LET rest == TextSizeUpTo(lay, n - 1)
             g    == lay[n].g
         IN  IF g.ink = <<>> THEN rest
             ELSE << Max(rest[1], lay[n].x + InkWidth(g)),
                     Max(rest[2], lay[n].y + InkHeight(g)) >>

text_size(scale, font, text) ==
    LET lay == Layout(font, scale, text) IN TextSizeUpTo(lay, Len(lay))

\* GrayImage::new: a zeroed buffer of width * height pixels
GrayImageNew(width, height) ==
    [width |-> width, height |-> height, data |-> [p \in 1..(width * height) |-> 0]]

\* imageproc's weighted_sum of a pixel and the colour with weights 1 - gv, gv
WeightedSum(pixel, color, gv) == (pixel * (255 - gv) + color * gv) \div 255

\* one glyph drawn with its bounding box at (bx, by), seen from the pixel
\* (px, py) whose value is v: a pixel of the box is blended with the colour
\* by its coverage, any other pixel keeps its value
GlyphPixel(v, color, px, py, bx, by, g) ==
    LET gx == px - bx
        gy == py - by
    IN  IF gx >= 0 /\ gx < InkWidth(g) /\ gy >= 0 /\ gy < InkHeight(g)
        THEN WeightedSum(v, color, g.ink[gy + 1][gx + 1])
        ELSE v

\* the glyphs of the string are drawn one after the other
RECURSIVE TextPixel(_, _, _, _, _, _, _, _)
TextPixel(v, color, px, py, x, y, lay, n) ==
    IF n = 0 THEN v
    ELSE IF lay[n].g.ink = <<>> THEN TextPixel(v, color, px, py, x, y, lay, n - 1)
    ELSE GlyphPixel(TextPixel(v, color, px, py, x, y, lay, n - 1), color, px, py,
                    x + lay[n].x, y + lay[n].y, lay[n].g)

\* imageproc::drawing::draw_text_mut with the string laid out as lay; pixels
\* outside the image are skipped
DrawLayout(img, color, x, y, lay) ==
    [img EXCEPT !.data =
        [p \in 1..Len(img.data) |->
            TextPixel(img.data[p], color, (p - 1) % img.width, (p - 1) \div img.width,
                      x, y, lay, Len(lay))]]

draw_text_mut(img, color, x, y, scale, font, text) ==
    DrawLayout(img, color, x, y, Layout(font, scale, text))

----------------------------------------------------------------------------
(* KeyBrightnesses' helpers. *)

\* .sum::<usize>() over the pixels lo..hi of the buffer
RECURSIVE SumRange(_, _, _)
SumRange(q, lo, hi) ==
    IF lo > hi THEN 0
    ELSE IF lo = hi THEN q[lo]
    ELSE LET mid == (lo + hi) \div 2
         IN  SumRange(q, lo, mid) + SumRange(q, mid + 1, hi)

SumSeq(q) == SumRange(q, 1, Len(q))

Ok(v) == [ok |-> TRUE, val |-> v, msg |-> ""]
Panic(m) == [ok |-> FALSE, val |-> 0, msg |-> m]

\* average_brightness: sum of the pixels / image.len(), then try_into::<u8>().unwrap()
average_brightness_rounding(img) ==
    IF Len(img.data) = 0 THEN Panic(DivPanic)
    ELSE Ok((SumSeq(img.data) + Len(img.data) \div 2) \div Len(img.data))

average_brightness_checked(img) ==
    IF Len(img.data) = 0 THEN Ok(0)
    ELSE Ok(SumSeq(img.data) \div Len(img.data))

average_brightness(img) ==
    IF Len(img.data) = 0 THEN Panic(DivPanic)
    ELSE LET q == SumSeq(img.data) \div Len(img.data)
         IN  IF q > 255 THEN Panic(UnwrapPanic) ELSE Ok(q)

\* keys.contains(' ')
contains_first_only(keys, c) == keys # <<>> /\ keys[1] = c

contains(keys, c) == \E i \in 1..Len(keys) : keys[i] = c

\* key.to_string().repeat(n)
repeat(key, n) == [j \in 1..n |-> key]

\* keys.chars().map(|key| key.to_string().repeat(CHUNK_WIDTH_KEY_AMOUNT)).collect()
key_chunk_rows(keys) == [j \in 1..Len(keys) |-> repeat(keys[j], CHUNK_WIDTH_KEY_AMOUNT)]

\* for y in 0..KEY_REPETITION { draw_text_mut(&mut image, KEY_COLOR, 0, y * chunk_row_height, ..) }
RECURSIVE DrawBands_top_only(_, _, _, _)
DrawBands_top_only(img, n, chunk_row_height, lay) ==
    IF n = 0 THEN img
    ELSE DrawLayout(DrawBands_top_only(img, n - 1, chunk_row_height, lay), KEY_COLOR, 0, 0, lay)

RECURSIVE DrawBands(_, _, _, _)
DrawBands(img, n, chunk_row_height, lay) ==
    IF n = 0 THEN img
    ELSE DrawLayout(DrawBands(img, n - 1, chunk_row_height, lay),
                    KEY_COLOR, 0, (n - 1) * chunk_row_height, lay)

\* the image of one loop iteration (lines 45-60); text_size never returns a
\* negative number, so `as u32` keeps the value
ChunkImage(row, font, scale) ==
    LET lay == Layout(font, scale, row)
        size == TextSizeUpTo(lay, Len(lay))
        chunk_row_width  == size[1]
        chunk_row_height == size[2]
    IN  DrawBands(GrayImageNew(chunk_row_width, chunk_row_height * KEY_REPETITION),
                  KEY_REPETITION, chunk_row_height, lay)

----------------------------------------------------------------------------
(* The two views of a table. *)

Min(a, b) == IF a <= b THEN a ELSE b

\* impl From<&KeyBrightnesses> for Vec<(u8, char)>:
\* brightnesses.iter().copied().zip(keys.chars()).collect()
TupleFrom_swapped(t) ==
    [j \in 1..Min(Len(t.brightnesses), Len(t.keys)) |-> <<t.keys[j], t.brightnesses[j]>>]

TupleFrom(t) ==
    [j \in 1..Min(Len(t.brightnesses), Len(t.keys)) |-> <<t.brightnesses[j], t.keys[j]>>]

EmptyMap == <<>>

\* HashMap::insert of the pairs of `later` into m, one after the other: the
\* value of a key that m already has is replaced
InsertAll_keep_first(m, later) == m @@ later

InsertAll(m, later) == later @@ m

\* HashMap::from_iter over the pairs lo..hi: the pairs are inserted in
\* iteration order (the range is split in two to keep the evaluation shallow:
\* inserting lo..hi is inserting lo..mid and then mid+1..hi)
RECURSIVE FromIter(_, _, _)
FromIter(pairs, lo, hi) ==
    IF lo > hi THEN EmptyMap
    ELSE IF lo = hi THEN InsertAll(EmptyMap, pairs[lo][1] :> pairs[lo][2])
    ELSE LET mid == (lo + hi) \div 2
         IN  InsertAll(FromIter(pairs, lo, mid), FromIter(pairs, mid + 1, hi))

\* impl From<&KeyBrightnesses> for HashMap<u8, char>
HashMapFrom(t) == FromIter(TupleFrom(t), 1, Len(TupleFrom(t)))

\* Self { keys: keys.to_string(), brightnesses: ... }
\* the sequence with every repeated element dropped (first occurrences kept)
Dedup(q) ==
    LET firsts == {j \in 1..Len(q) : \A k \in 1..(j - 1) : q[k] # q[j]}
    IN  [i \in 1..Cardinality(firsts) |->
            q[CHOOSE j \in firsts : Cardinality({k \in firsts : k < j}) = i - 1]]

KeyBrightnesses_dedup(keys, brightnesses) ==
    [keys |-> Dedup(keys), brightnesses |-> brightnesses]

KeyBrightnesses(keys, brightnesses) == [keys |-> keys, brightnesses |-> brightnesses]

DefaultTable == KeyBrightnesses(DEFAULT_PRINTABLE_CHARACTERS, DEFAULT_BRIGHTNESSES)

NoImage == GrayImageNew(0, 0)

----------------------------------------------------------------------------
(* State machine. *)

Init ==
    /\ pc = "idle"
    /\ call = NoCall
    /\ idx = 1
    /\ key_brightnesess = <<>>
    /\ image = NoImage
    /\ draws = 0
    /\ table = NoTable
    /\ ret = NoRet
    /\ err = ""
    /\ prev = NoPrev

\* lines 39-43: the chunk rows are collected and the result vector is created empty
EnterLoop_stale ==
    /\ pc' = "loop"
    /\ idx' = 1
    /\ key_brightnesess' = key_brightnesess
    /\ image' = NoImage
    /\ draws' = 0

EnterLoop ==
    /\ pc' = "loop"
    /\ idx' = 1
    /\ key_brightnesess' = <<>>
    /\ image' = NoImage
    /\ draws' = 0

\* KeyBrightnesses::new up to its call of keys_average_brightnesses
New(keys, font, scale) ==
    /\ pc = "idle"
    /\ call' = [fn |-> "new", keys |-> keys, font |-> font, scale |-> scale]
    /\ IF contains(keys, SPACE)
       THEN /\ pc' = "panicked"
            /\ err' = SpacePanic
            /\ UNCHANGED <<idx, key_brightnesess, image, draws>>
       ELSE /\ EnterLoop
            /\ UNCHANGED err
    /\ ret' = NoRet
    /\ UNCHANGED <<table, prev>>

\* keys_average_brightnesses called on its own (as the unit test `new` does)
KeysAverageBrightnesses(keys, font, scale) ==
    /\ pc = "idle"
    /\ call' = [fn |-> "keys_average_brightnesses",
                keys |-> keys, font |-> font, scale |-> scale]
    /\ EnterLoop
    /\ ret' = NoRet
    /\ UNCHANGED <<table, err, prev>>

\* one iteration of `for key_chunk_row in key_chunk_rows.iter()` (lines 44-62)
LoopBody ==
    /\ pc = "loop"
    /\ idx <= Len(key_chunk_rows(call.keys))
    /\ LET img == ChunkImage(key_chunk_rows(call.keys)[idx], call.font, call.scale)
           avg == average_brightness(img)
       IN  /\ image' = img
           /\ draws' = draws + KEY_REPETITION
           /\ IF avg.ok
              THEN /\ key_brightnesess' = Append(key_brightnesess, avg.val)
                   /\ idx' = idx + 1
                   /\ UNCHANGED <<pc, err>>
              ELSE /\ pc' = "panicked"
                   /\ err' = avg.msg
                   /\ UNCHANGED <<key_brightnesess, idx>>
    /\ UNCHANGED <<call, table, ret, prev>>

\* the loop is over: keys_average_brightnesses returns, and new builds Self
ReturnCore ==
    /\ pc = "loop"
    /\ idx > Len(key_chunk_rows(call.keys))
    /\ pc' = "idle"
    /\ IF call.fn = "new"
       THEN /\ table' = KeyBrightnesses(call.keys, key_brightnesess)
            /\ ret' = [op |-> "new", val |-> table']
       ELSE /\ ret' = [op |-> "keys_average_brightnesses", val |-> key_brightnesess]
            /\ UNCHANGED table
    /\ UNCHANGED <<call, idx, key_brightnesess, image, draws, err>>

Return == ReturnCore /\ UNCHANGED prev

\* the same return with its arguments and result kept for the comparison with
\* a later call: the call that built the table held, or, while no table is
\* held, a call of the helper
ReturnRemembered ==
    /\ ReturnCore
    /\ call.fn = "new" \/ table = NoTable
    /\ prev' = [args |-> call, val |-> key_brightnesess]

\* impl Default for KeyBrightnesses
Default ==
    /\ pc = "idle"
    /\ table' = KeyBrightnesses(DEFAULT_PRINTABLE_CHARACTERS, DEFAULT_BRIGHTNESSES)
    /\ ret' = [op |-> "default", val |-> table']
    /\ UNCHANGED <<pc, call, idx, key_brightnesess, image, draws, err, prev>>

Accessor(op, val) ==
    /\ pc = "idle"
    /\ table # NoTable
    /\ ret' = [op |-> op, val |-> val]
    /\ UNCHANGED <<pc, call, idx, key_brightnesess, image, draws, table, err, prev>>

\* as_tuple written with a draining iterator instead of iter().copied()
AsTuple_draining ==
    /\ pc = "idle"
    /\ table # NoTable
    /\ ret' = [op |-> "as_tuple", val |-> TupleFrom(table)]
    /\ table' = [table EXCEPT !.brightnesses = <<>>]
    /\ UNCHANGED <<pc, call, idx, key_brightnesess, image, draws, err, prev>>

Brightnesses == Accessor("brightnesses", table.brightnesses)
Keys == Accessor("keys", table.keys)
AsTuple == Accessor("as_tuple", TupleFrom(table))
AsHashMap == Accessor("as_hash_map", HashMapFrom(table))
Clone == Accessor("clone", table)

Next ==
    \/ table = NoTable /\ \E keys \in KeySets, font \in Fonts, scale \in Scales : New(keys, font, scale)
    \/ table = NoTable /\ Default
    \/ LoopBody
    \/ Return
    \/ Brightnesses
    \/ Keys
    \/ AsTuple
    \/ AsHashMap
    \/ Clone

Spec == Init /\ [][Next]_vars

----------------------------------------------------------------------------
(* Repeated construction: new and keys_average_brightnesses are called any *)
(* number of times, in any order, with any arguments (unit test `new`).    *)

\* the character sets new accepts (those with a space end the program at once)
SpaceFreeKeySets == {keys \in KeySets : ~contains(keys, SPACE)}

NextDet ==
    \/ \E keys \in SpaceFreeKeySets, font \in Fonts, scale \in Scales :
            New(keys, font, scale)
    \/ \E keys \in SpaceFreeKeySets, font \in Fonts, scale \in Scales :
            KeysAverageBrightnesses(keys, font, scale)
    \/ LoopBody
    \/ call.fn # "new" /\ Return
    \/ ReturnRemembered

SpecDet == Init /\ [][NextDet]_vars

----------------------------------------------------------------------------
(* average_brightness applied to an arbitrary canvas (unit test            *)
(* `average_brightness`).                                                  *)

Shapes == {wh \in (0..MaxPixels) \X (0..MaxPixels) : wh[1] * wh[2] <= MaxPixels}

Canvases ==
    UNION { { [width |-> wh[1], height |-> wh[2], data |-> d] :
                d \in [1..(wh[1] * wh[2]) -> PixelValues] } : wh \in Shapes }

InitAvg ==
    /\ pc = "idle"
    /\ call = NoCall
    /\ idx = 1
    /\ key_brightnesess = <<>>
    /\ image \in Canvases
    /\ draws = 0
    /\ table = NoTable
    /\ ret = NoRet
    /\ err = ""
    /\ prev = NoPrev

AverageBrightness ==
    /\ pc = "idle"
    /\ ret = NoRet
    /\ LET avg == average_brightness(image)
       IN  IF avg.ok
           THEN /\ ret' = [op |-> "average_brightness", val |-> avg.val]
                /\ UNCHANGED <<pc, err>>
           ELSE /\ pc' = "panicked"
                /\ err' = avg.msg
                /\ UNCHANGED ret
    /\ UNCHANGED <<call, idx, key_brightnesess, image, draws, table, prev>>

NextAvg == AverageBrightness

SpecAvg == InitAvg /\ [][NextAvg]_vars

----------------------------------------------------------------------------
(* Properties. *)

HasSpace(q) == SPACE \in {q[j] : j \in 1..Len(q)}
Distinct(q) == \A j, k \in 1..Len(q) : j # k => q[j] # q[k]
IsBuilt == pc = "idle" /\ ret.op = "new"

\* C1: new fails (the panic "Keys cannot contain spaces.") for every character
\* set with a space at any position and hands out no table; for a set without
\* a space that failure does not occur.
C1_SpaceRejected ==
    call.fn = "new" =>
        /\ HasSpace(call.keys) =>
                pc = "panicked" /\ err = SpacePanic /\ table = NoTable /\ ret.op # "new"
        /\ ~HasSpace(call.keys) => err # SpacePanic

C1_Witness ==
    /\ pc = "panicked"
    /\ err = SpacePanic
    /\ Len(call.keys) = 2
    /\ call.keys[1] # SPACE
    /\ call.keys[2] = SPACE

\* C2 as stated: every table new returns has pairwise distinct characters
\* (a character set with a repeated symbol is rejected).
C2_DuplicatesRejected == IsBuilt => Distinct(ret.val.keys)

\* C2 amended: new rejects a character set only for a space in it; a set
\* with a repeated symbol is accepted, and the table returned holds exactly
\* the input sequence of characters, one brightness per position.
C2_OnlySpacesRejected ==
    /\ (call.fn = "new" /\ pc = "panicked") =>
            \/ err = SpacePanic /\ HasSpace(call.keys)
            \/ err = DivPanic /\ ~HasSpace(call.keys)
    /\ IsBuilt =>
            /\ ret.val.keys = call.keys
            /\ Len(ret.val.brightnesses) = Len(call.keys)

C2_Witness == IsBuilt /\ Len(ret.val.keys) = 2 /\ ret.val.keys[1] = ret.val.keys[2]

\* the pixel sum, counted value by value over the values lo..hi
RECURSIVE WeightedCount(_, _, _)
WeightedCount(data, lo, hi) ==
    IF lo = hi THEN lo * Cardinality({p \in 1..Len(data) : data[p] = lo})
    ELSE WeightedCount(data, lo, (lo + hi) \div 2)
            + WeightedCount(data, ((lo + hi) \div 2) + 1, hi)

PixelSum(data) == WeightedCount(data, 0, 255)

\* C3: on a canvas of at least one pixel average_brightness returns
\* floor(sum / count): the q in 0..255 with q * count <= sum < (q + 1) * count;
\* 255 on an all-white and 0 on an all-black canvas.
C3_TruncatingAverage ==
    LET n == Len(image.data)
        sum == PixelSum(image.data)
    IN  /\ n >= 1 => pc # "panicked"
        /\ ret.op = "average_brightness" =>
                /\ n >= 1
                /\ ret.val \in 0..255
                /\ ret.val * n <= sum
                /\ sum < (ret.val + 1) * n
                /\ (\A p \in 1..n : image.data[p] = 255) => ret.val = 255
                /\ (\A p \in 1..n : image.data[p] = 0) => ret.val = 0

\* a canvas whose exact average has a fractional part of at least one half
C3_Witness ==
    /\ ret.op = "average_brightness"
    /\ 2 * (PixelSum(image.data) % Len(image.data)) >= Len(image.data)
    /\ ret.val = 127

\* C4: as_tuple has one pair per character, and pair i is
\* (brightness[i], character[i]).
C4_TupleOrder ==
    ret.op = "as_tuple" =>
        /\ Len(ret.val) = Len(table.keys)
        /\ \A j \in 1..Len(table.keys) :
                ret.val[j] = <<table.brightnesses[j], table.keys[j]>>

C4_Witness ==
    /\ ret.op = "as_tuple"
    /\ call.fn = "new"
    /\ Len(ret.val) = 2
    /\ ret.val[1] # ret.val[2]

\* the last position of the table with brightness b
LastIndexOf(t, b) ==
    CHOOSE j \in 1..Len(t.brightnesses) :
        /\ t.brightnesses[j] = b
        /\ \A k \in (j + 1)..Len(t.brightnesses) : t.brightnesses[k] # b

\* C5: the keys of as_hash_map are exactly the brightness values of the
\* table, and each maps to the character at the last position having it.
C5_MapLastWins ==
    ret.op = "as_hash_map" =>
        /\ DOMAIN ret.val = {table.brightnesses[j] : j \in 1..Len(table.brightnesses)}
        /\ \A b \in DOMAIN ret.val : ret.val[b] = table.keys[LastIndexOf(table, b)]

\* two different characters share a brightness
C5_Witness ==
    /\ ret.op = "as_hash_map"
    /\ \E j, k \in 1..Len(table.keys) :
            /\ j < k
            /\ table.brightnesses[j] = table.brightnesses[k]
            /\ table.keys[j] # table.keys[k]
            /\ ret.val[table.brightnesses[j]] = table.keys[k]

\* C6: the default table is made without a single draw and holds the 95
\* characters 0x21..0x7E in ascending order and then one space, with 95
\* fixed brightness values in 0..255.
C6_DefaultTable ==
    ret.op = "default" =>
        /\ table = ret.val
        /\ draws = 0
        /\ image = NoImage
        /\ Len(table.keys) = 95
        /\ \A j \in 1..94 : table.keys[j] = 32 + j
        /\ table.keys[95] = SPACE
        /\ Len(table.brightnesses) = 95
        /\ \A j \in 1..95 : table.brightnesses[j] \in 0..255
        /\ table.brightnesses = DEFAULT_BRIGHTNESSES

C6_Witness == ret.op = "default" /\ pc = "idle" /\ table # NoTable

SameArgs(a, b) == a.keys = b.keys /\ a.font = b.font /\ a.scale = b.scale

\* C7: a call of new or keys_average_brightnesses that returns yields the
\* brightness sequence an earlier call with the same character set, font and
\* scale yielded, whichever of the two functions that was and whatever
\* calls were made in between.
C7_Deterministic ==
    [][ (pc = "loop" /\ pc' = "idle" /\ prev # NoPrev /\ SameArgs(prev.args, call)) =>
            /\ ret'.op = "new" => ret'.val.brightnesses = prev.val
            /\ ret'.op = "keys_average_brightnesses" => ret'.val = prev.val ]_vars

\* new built a table, then keys_average_brightnesses ran on the same arguments
C7_Witness ==
    /\ pc = "idle"
    /\ ret.op = "keys_average_brightnesses"
    /\ prev.args.fn = "new"
    /\ SameArgs(prev.args, call)
    /\ Len(ret.val) = 2
    /\ table.brightnesses = ret.val

\* C8: once a table exists no step changes it, and its two sequences have
\* the same length.
C8_Immutable ==
    [][ /\ table # NoTable => table' = table
        /\ table' # NoTable => Len(table'.keys) = Len(table'.brightnesses) ]_vars

C8_Witness ==
    /\ ret.op = "clone"
    /\ ret.val = table
    /\ call.fn = "new"
    /\ Len(table.keys) = 2
    /\ Len(table.brightnesses) = 2

\* The canvas the claim describes for character c: the tile is c six times,
\* the canvas has the tile's width and three times its height, is black, and
\* carries the tile at value 255 in each of the bands starting at y = 0, h
\* and 2h.  (No glyph of the fonts reaches into the next glyph's cell, so a
\* pixel is touched by at most one glyph and takes that glyph's coverage.)
TileWidth(c, font, scale) ==
    LET g == Glyph(font, c)
    IN  IF g.ink = <<>> THEN 0 ELSE scale * (5 * g.advance + g.left + InkWidth(g))

TileHeight(c, font, scale) ==
    LET g == Glyph(font, c)
    IN  IF g.ink = <<>> THEN 0 ELSE scale * (g.top + InkHeight(g))

ExpectedPixel(c, font, scale, x, y) ==
    LET g == Glyph(font, c)
        row == (y % TileHeight(c, font, scale)) - scale * g.top
        Col(k) == x - scale * (k * g.advance + g.left)
        Hit(k) == /\ row >= 0 /\ row < scale * InkHeight(g)
                  /\ Col(k) >= 0 /\ Col(k) < scale * InkWidth(g)
    IN  IF \E k \in 0..5 : Hit(k)
        THEN LET k == CHOOSE kk \in 0..5 : Hit(kk)
             IN  g.ink[(row \div scale) + 1][(Col(k) \div scale) + 1]
        ELSE 0

ExpectedCanvas(c, font, scale) ==
    LET w == TileWidth(c, font, scale)
        h == TileHeight(c, font, scale)
    IN  [width |-> w, height |-> 3 * h,
         data |-> [p \in 1..(w * 3 * h) |->
                      ExpectedPixel(c, font, scale, (p - 1) % w, (p - 1) \div w)]]

IsFloorAverage(q, img) ==
    /\ q * Len(img.data) <= PixelSum(img.data)
    /\ PixelSum(img.data) < (q + 1) * Len(img.data)

\* C9: entry j of the result is the truncated average of the canvas described
\* above for character j of the input, the canvas of the iteration just done
\* is that canvas, and the finished result has one entry per character.
C9_TileRendering ==
    call.fn = "new" =>
        /\ \A j \in 1..Len(key_brightnesess) :
                IsFloorAverage(key_brightnesess[j],
                               ExpectedCanvas(call.keys[j], call.font, call.scale))
        /\ (pc = "loop" /\ idx > 1) =>
                image = ExpectedCanvas(call.keys[idx - 1], call.font, call.scale)
        /\ (pc = "panicked" /\ err = DivPanic) =>
                image = ExpectedCanvas(call.keys[idx], call.font, call.scale)
        /\ pc = "loop" =>
                /\ Len(key_brightnesess) = idx - 1
                /\ draws = 3 * (idx - 1)
        /\ IsBuilt =>
                /\ ret.val.brightnesses = key_brightnesess
                /\ Len(key_brightnesess) = Len(call.keys)

\* two characters of different brightness, the second partly covered
C9_Witness ==
    /\ IsBuilt
    /\ Len(ret.val.keys) = 2
    /\ ret.val.brightnesses[1] = 255
    /\ ret.val.brightnesses[2] \in 1..254
    /\ image.width > 0
    /\ \E p \in 1..Len(image.data) : image.data[p] = 0

\* the measured tile of character c has width or height 0
ZeroTile(c, font, scale) ==
    LET size == text_size(scale, font, repeat(c, 6))
    IN  size[1] = 0 \/ size[2] = 0

\* C10: averaging a canvas without pixels is a division by zero that aborts
\* the build; a build that gets past a character, or returns a table, has
\* met no character with an empty tile; the empty character set gives the
\* empty table with no canvas averaged.
C10_EmptyCanvasAborts ==
    (call.fn = "new" /\ ~HasSpace(call.keys)) =>
        /\ (pc = "panicked") =>
                /\ err = DivPanic
                /\ Len(image.data) = 0
                /\ ZeroTile(call.keys[idx], call.font, call.scale)
                /\ table = NoTable
        /\ (pc = "loop") =>
                \A j \in 1..(idx - 1) : ~ZeroTile(call.keys[j], call.font, call.scale)
        /\ IsBuilt =>
                \A j \in 1..Len(call.keys) : ~ZeroTile(call.keys[j], call.font, call.scale)
        /\ (IsBuilt /\ call.keys = <<>>) =>
                /\ ret.val = [keys |-> <<>>, brightnesses |-> <<>>]
                /\ draws = 0
                /\ image = NoImage

\* the second character's tile is empty: the build aborts after the first
C10_Witness ==
    /\ pc = "panicked"
    /\ err = DivPanic
    /\ call.fn = "new"
    /\ idx = 2
    /\ Len(key_brightnesess) = 1

====
